---------------------------- MODULE Spec2Model ----------------------------
(***************************************************************************)
(* A model of generate_parameter_library_py (main.py): the compiler that   *)
(* walks a parsed YAML schema (GenParamStruct.parse_dict), builds the       *)
(* struct tree and the flat descriptor lists, and renders them             *)
(* (GenParamStruct.__str__).                                                *)
(*                                                                         *)
(* Python strings are sequences of one-character strings, so that          *)
(* split, join, containment and formatting are computed, not assumed.      *)
(* Python values are tagged records:                                       *)
(*   [k |-> "none"]                 None                                   *)
(*   [k |-> "bool",  b |-> TRUE]    bool                                   *)
(*   [k |-> "int",   n |-> 10]      int                                    *)
(*   [k |-> "float", sp, t]         float: sp = "num" and t the value in   *)
(*                                  tenths, or sp in {"nan","inf","-inf"}  *)
(*   [k |-> "str",   s |-> <<..>>]  str                                    *)
(*   [k |-> "list",  items]         list                                   *)
(*   [k |-> "dict",  items]         dict: a sequence of <<key, value>>     *)
(*                                  pairs in insertion (document) order    *)
(***************************************************************************)
EXTENDS Integers, Sequences, FiniteSets, TLC

(***************************************************************************)
(* String constants of the source and of the schemas explored.             *)
(***************************************************************************)
K_type == <<"t", "y", "p", "e">>
K_default_value == <<"d", "e", "f", "a", "u", "l", "t", "_", "v", "a", "l", "u", "e">>
K_description == <<"d", "e", "s", "c", "r", "i", "p", "t", "i", "o", "n">>
K_read_only == <<"r", "e", "a", "d", "_", "o", "n", "l", "y">>
K_validation == <<"v", "a", "l", "i", "d", "a", "t", "i", "o", "n">>
T_string == <<"s", "t", "r", "i", "n", "g">>
T_double == <<"d", "o", "u", "b", "l", "e">>
T_int == <<"i", "n", "t">>
T_bool == <<"b", "o", "o", "l">>
T_string_array == <<"s", "t", "r", "i", "n", "g", "_", "a", "r", "r", "a", "y">>
T_double_array == <<"d", "o", "u", "b", "l", "e", "_", "a", "r", "r", "a", "y">>
T_int_array == <<"i", "n", "t", "_", "a", "r", "r", "a", "y">>
T_bool_array == <<"b", "o", "o", "l", "_", "a", "r", "r", "a", "y">>
S_map_marker == <<"_", "_", "m", "a", "p", "_">>
S_map_suffix == <<"_", "m", "a", "p">>
S_Params == <<"P", "a", "r", "a", "m", "s">>
S_ERROR == <<"\n", "E", "R", "R", "O", "R", ":", " ">>
S_no_type ==
    <<"N", "o", " ", "t", "y", "p", "e", " ", "d", "e", "f", "i", "n", "e", "d", " ", "f", "o",
      "r", " ", "p", "a", "r", "a", "m", "e", "t", "e", "r", " ">>
S_invalid_yaml_type ==
    <<"i", "n", "v", "a", "l", "i", "d", " ", "y", "a", "m", "l", " ", "t", "y", "p", "e", ":",
      " ">>
S_invalid_arg_type ==
    <<"i", "n", "v", "a", "l", "i", "d", " ", "p", "y", "t", "h", "o", "n", " ", "a", "r", "g",
      " ", "t", "y", "p", "e", ":", " ">>
S_class_list == <<"<", "c", "l", "a", "s", "s", " ", "'", "l", "i", "s", "t", "'", ">">>
S_true == <<"t", "r", "u", "e">>
S_false == <<"f", "a", "l", "s", "e">>
S_nan == <<"n", "a", "n">>
S_inf == <<"i", "n", "f">>
S_neg_inf == <<"-", "i", "n", "f">>
S_std_string == <<"s", "t", "d", ":", ":", "s", "t", "r", "i", "n", "g">>
S_as_double == <<"a", "s", "_", "d", "o", "u", "b", "l", "e", "(", ")">>
S_open_call == <<"(", "p", "a", "r", "a", "m">>
S_comma == <<",", " ">>
S_comma_brace == <<",", " ", "{">>
S_not_empty == <<"n", "o", "t", "_", "e", "m", "p", "t", "y">>
S_eq == <<" ", "=", " ">>
N_robot == <<"r", "o", "b", "o", "t">>
N_speed == <<"s", "p", "e", "e", "d">>
N_arm == <<"a", "r", "m">>
F_bounds == <<"b", "o", "u", "n", "d", "s">>
F_one_of == <<"o", "n", "e", "_", "o", "f", "<", ">">>
F_check == <<"c", "h", "e", "c", "k">>
V_fast == <<"f", "a", "s", "t">>

(***************************************************************************)
(* Python string operations.                                               *)
(***************************************************************************)
RECURSIVE Concat(_)
\* "".join(parts)
Concat(parts) ==
    IF parts = <<>> THEN <<>> ELSE Head(parts) \o Concat(Tail(parts))

RECURSIVE Join(_, _)
\* sep.join(parts)
Join(parts, sep) ==
    IF parts = <<>> THEN <<>>
    ELSE IF Len(parts) = 1 THEN parts[1]
    ELSE parts[1] \o sep \o Join(Tail(parts), sep)

\* s.__contains__(sub)
Contains(s, sub) ==
    \E i \in 0..(Len(s) - Len(sub)) :
        \A j \in 1..Len(sub) : s[i + j] = sub[j]

RECURSIVE SplitFrom(_, _, _)
\* s.split(ch) for a one-character separator; cur is the segment being read
SplitFrom(s, ch, cur) ==
    IF s = <<>> THEN <<cur>>
    ELSE IF Head(s) = ch THEN <<cur>> \o SplitFrom(Tail(s), ch, <<>>)
    ELSE SplitFrom(Tail(s), ch, Append(cur, Head(s)))

Split(s, ch) == SplitFrom(s, ch, <<>>)

\* s.replace(a, b) for one-character a and b
Replace(s, a, b) == [i \in 1..Len(s) |-> IF s[i] = a THEN b ELSE s[i]]

Last(seq) == seq[Len(seq)]

Front(seq) == SubSeq(seq, 1, Len(seq) - 1)

Digits == <<"0", "1", "2", "3", "4", "5", "6", "7", "8", "9">>

RECURSIVE NatStr(_)
NatStr(n) ==
    IF n < 10 THEN <<Digits[n + 1]>> ELSE NatStr(n \div 10) \o <<Digits[(n % 10) + 1]>>

\* str(n) of a Python int
IntStr(n) == IF n < 0 THEN <<"-">> \o NatStr(-n) ELSE NatStr(n)

Lowers ==
    <<"a", "b", "c", "d", "e", "f", "g", "h", "i", "j", "k", "l", "m",
      "n", "o", "p", "q", "r", "s", "t", "u", "v", "w", "x", "y", "z">>

Uppers ==
    <<"A", "B", "C", "D", "E", "F", "G", "H", "I", "J", "K", "L", "M",
      "N", "O", "P", "Q", "R", "S", "T", "U", "V", "W", "X", "Y", "Z">>

IsLower(c) == \E i \in 1..Len(Lowers) : Lowers[i] = c

IsUpper(c) == \E i \in 1..Len(Uppers) : Uppers[i] = c

IsLetter(c) == IsLower(c) \/ IsUpper(c)

UpperChar(c) ==
    IF IsLower(c) THEN Uppers[CHOOSE i \in 1..Len(Lowers) : Lowers[i] = c] ELSE c

LowerChar(c) ==
    IF IsUpper(c) THEN Lowers[CHOOSE i \in 1..Len(Uppers) : Uppers[i] = c] ELSE c

\* s.upper()
Upper(s) == [i \in 1..Len(s) |-> UpperChar(s[i])]

\* s.title(): a letter is upper-cased after a non-letter, lower-cased after a letter
Title(s) ==
    [i \in 1..Len(s) |->
        IF i = 1 \/ ~IsLetter(s[i - 1]) THEN UpperChar(s[i]) ELSE LowerChar(s[i])]

\* pascal_case(string)
pascal_case(string) ==
    LET words == Split(string, "_")
    IN  Concat([i \in 1..Len(words) |-> Title(words[i])])

(***************************************************************************)
(* Python values, results and exceptions.                                  *)
(***************************************************************************)
None_ == [k |-> "none"]

PyBool(b) == [k |-> "bool", b |-> b]

PyInt(n) == [k |-> "int", n |-> n]

PyFloat(t) == [k |-> "float", sp |-> "num", t |-> t]

PyFloatSpecial(sp) == [k |-> "float", sp |-> sp, t |-> 0]

PyStr(s) == [k |-> "str", s |-> s]

PyList(items) == [k |-> "list", items |-> items]

PyDict(items) == [k |-> "dict", items |-> items]

\* isinstance(v, int): bool is a subclass of int
IsInstanceInt(v) == v.k \in {"int", "bool"}

\* a call either returns a value or raises
Ret(v) == [exc |-> "", msg |-> <<>>, val |-> v]

Raise(exc, msg) == [exc |-> exc, msg |-> msg, val |-> None_]

Raised(r) == r.exc # ""

\* the rest of a body after a call: an exception propagates, a value goes on
Then(r, Rest(_)) == IF Raised(r) THEN r ELSE Rest(r.val)

\* the results of a loop's turns: the first exception, or all the values
Collect(rs) ==
    IF \E i \in 1..Len(rs) : Raised(rs[i])
    THEN rs[CHOOSE i \in 1..Len(rs) : Raised(rs[i]) /\ \A j \in 1..(i - 1) : ~Raised(rs[j])]
    ELSE Ret([i \in 1..Len(rs) |-> rs[i].val])

\* compile_error(msg): the YAMLSyntaxError every compile error is raised as
compile_error(msg) == Raise("YAMLSyntaxError", S_ERROR \o msg)

\* str(v) of a number or bool
StrOf(v) ==
    CASE v.k = "bool" -> IF v.b THEN <<"T", "r", "u", "e">> ELSE <<"F", "a", "l", "s", "e">>
      [] v.k = "int" -> IntStr(v.n)
      [] v.k = "float" ->
            IF v.sp # "num" THEN
                (CASE v.sp = "nan" -> S_nan
                   [] v.sp = "inf" -> S_inf
                   [] v.sp = "-inf" -> S_neg_inf)
            ELSE (IF v.t < 0 THEN <<"-">> ELSE <<>>)
                 \o NatStr((IF v.t < 0 THEN -v.t ELSE v.t) \div 10)
                 \o <<".">>
                 \o NatStr((IF v.t < 0 THEN -v.t ELSE v.t) % 10)
      [] v.k = "str" -> v.s

(***************************************************************************)
(* value to c++ string conversion functions.  Each is @typechecked: an      *)
(* argument outside the annotation raises TypeError before the body runs.  *)
(* bool is an int to isinstance, and an int is accepted where float is      *)
(* annotated.                                                               *)
(***************************************************************************)
bool_to_str(cond) ==
    IF cond.k \notin {"none", "bool"} THEN Raise("TypeError", <<>>)
    ELSE IF cond.k = "none" THEN Ret(None_)
    ELSE Ret(PyStr(IF cond.b THEN S_true ELSE S_false))

\* the body of float_to_str once str_num = str(num) is known
FloatText(str_num) ==
    IF str_num = S_nan THEN <<"s", "t", "d", ":", ":", "n", "u", "m", "e", "r", "i", "c", "_",
                             "l", "i", "m", "i", "t", "s", "<", "d", "o", "u", "b", "l", "e",
                             ">", ":", ":", "q", "u", "i", "e", "t", "_", "N", "a", "N", "(",
                             ")">>
    ELSE IF str_num = S_inf THEN <<"s", "t", "d", ":", ":", "n", "u", "m", "e", "r", "i", "c",
                                  "_", "l", "i", "m", "i", "t", "s", "<", "d", "o", "u", "b",
                                  "l", "e", ">", ":", ":", "i", "n", "f", "i", "n", "i", "t",
                                  "y", "(", ")">>
    ELSE IF str_num = S_neg_inf THEN <<"-", "s", "t", "d", ":", ":", "n", "u", "m", "e", "r",
                                      "i", "c", "_", "l", "i", "m", "i", "t", "s", "<", "d", "o",
                                      "u", "b", "l", "e", ">", ":", ":", "i", "n", "f", "i", "n",
                                      "i", "t", "y", "(", ")">>
    ELSE IF Len(Split(str_num, ".")) = 1 THEN str_num \o <<".", "0">>
    ELSE str_num

float_to_str(num) ==
    IF num.k \notin {"none", "float", "int", "bool"} THEN Raise("TypeError", <<>>)
    ELSE IF num.k = "none" THEN Ret(None_)
    ELSE Ret(PyStr(FloatText(StrOf(num))))

int_to_str(num) ==
    IF num.k \notin {"none", "int", "bool"} THEN Raise("TypeError", <<>>)
    ELSE IF num.k = "none" THEN Ret(None_)
    ELSE Ret(PyStr(StrOf(num)))

str_to_str(s) ==
    IF s.k \notin {"none", "str"} THEN Raise("TypeError", <<>>)
    ELSE IF s.k = "none" THEN Ret(None_)
    ELSE Ret(PyStr(<<"\"">> \o s.s \o <<"\"">>))

\* the conversion function named fn, applied to v
CallValFunc(fn, v) ==
    CASE fn = "bool_to_str" -> bool_to_str(v)
      [] fn = "float_to_str" -> float_to_str(v)
      [] fn = "int_to_str" -> int_to_str(v)
      [] fn = "str_to_str" -> str_to_str(v)
      [] fn = "lambda" -> Ret(PyStr(<<>>))

(***************************************************************************)
(* cpp_type, val_to_cpp_str, parameter_conversion: the per-tag lookups.     *)
(***************************************************************************)
\* "%s" % type(yaml_type): the tag is always a str
invalid_yaml_type == compile_error(S_invalid_yaml_type \o <<"<", "c", "l", "a", "s", "s", " ",
                                                           "'", "s", "t", "r", "'", ">">>)

cpp_type_from_defined_type(yaml_type) ==
    IF yaml_type = T_string_array THEN Ret(PyStr(<<"s", "t", "d", ":", ":", "v", "e", "c", "t",
                                                  "o", "r", "<", "s", "t", "d", ":", ":", "s",
                                                  "t", "r", "i", "n", "g", ">">>))
    ELSE IF yaml_type = T_double_array THEN Ret(PyStr(<<"s", "t", "d", ":", ":", "v", "e", "c",
                                                       "t", "o", "r", "<", "d", "o", "u", "b",
                                                       "l", "e", ">">>))
    ELSE IF yaml_type = T_int_array THEN Ret(PyStr(<<"s", "t", "d", ":", ":", "v", "e", "c",
                                                    "t", "o", "r", "<", "i", "n", "t", ">">>))
    ELSE IF yaml_type = T_bool_array THEN Ret(PyStr(<<"s", "t", "d", ":", ":", "v", "e", "c",
                                                     "t", "o", "r", "<", "b", "o", "o", "l",
                                                     ">">>))
    ELSE IF yaml_type = T_string THEN Ret(PyStr(S_std_string))
    ELSE IF yaml_type = T_double THEN Ret(PyStr(T_double))
    ELSE IF yaml_type = T_int THEN Ret(PyStr(T_int))
    ELSE IF yaml_type = T_bool THEN Ret(PyStr(T_bool))
    ELSE invalid_yaml_type

cpp_primitive_type_from_defined_type(yaml_type) ==
    IF yaml_type = T_string_array THEN Ret(PyStr(S_std_string))
    ELSE IF yaml_type = T_double_array THEN Ret(PyStr(T_double))
    ELSE IF yaml_type = T_int_array THEN Ret(PyStr(T_int))
    ELSE IF yaml_type = T_bool_array THEN Ret(PyStr(T_bool))
    ELSE IF yaml_type = T_string THEN Ret(PyStr(S_std_string))
    ELSE IF yaml_type = T_double THEN Ret(PyStr(T_double))
    ELSE IF yaml_type = T_int THEN Ret(PyStr(T_int))
    ELSE IF yaml_type = T_bool THEN Ret(PyStr(T_bool))
    ELSE invalid_yaml_type

\* returns the name of the conversion function
cpp_str_func_from_defined_type(yaml_type) ==
    IF yaml_type = T_string_array THEN Ret("str_to_str")
    ELSE IF yaml_type = T_double_array THEN Ret("float_to_str")
    ELSE IF yaml_type = <<"i", "n", "t", "e", "g", "e", "r", "_", "a", "r", "r", "a", "y">> THEN Ret("int_to_str")
    ELSE IF yaml_type = T_bool_array THEN Ret("bool_to_str")
    ELSE IF yaml_type = T_string THEN Ret("str_to_str")
    ELSE IF yaml_type = T_double THEN Ret("float_to_str")
    ELSE IF yaml_type = T_int THEN Ret("int_to_str")
    ELSE IF yaml_type = T_bool THEN Ret("bool_to_str")
    ELSE invalid_yaml_type

\* type(arg) as "%s" prints it, for the kinds no branch accepts
TypeText(arg) == IF arg.k = "list" THEN S_class_list ELSE <<"<", "c", "l", "a", "s", "s", " ",
                                                           "'", "d", "i", "c", "t", "'", ">">>

\* a variant that formats every number as a float
cpp_str_func_from_python_val_as_float(arg) ==
    IF IsInstanceInt(arg) THEN Ret("float_to_str")
    ELSE IF arg.k = "float" THEN Ret("float_to_str")
    ELSE IF arg.k = "str" THEN Ret("str_to_str")
    ELSE IF arg.k = "none" THEN Ret("lambda")
    ELSE compile_error(S_invalid_arg_type \o TypeText(arg))

\* returns the name of the conversion function; the isinstance tests run in
\* the source's order, so a bool is taken by the int branch
cpp_str_func_from_python_val(arg) ==
    IF IsInstanceInt(arg) THEN Ret("int_to_str")
    ELSE IF arg.k = "float" THEN Ret("float_to_str")
    ELSE IF arg.k = "bool" THEN Ret("bool_to_str")
    ELSE IF arg.k = "str" THEN Ret("str_to_str")
    ELSE IF arg.k = "none" THEN Ret("lambda")
    ELSE compile_error(S_invalid_arg_type \o TypeText(arg))

get_parameter_as_function_str(yaml_type) ==
    IF yaml_type = T_string_array THEN Ret(PyStr(<<"a", "s", "_", "s", "t", "r", "i", "n", "g",
                                                  "_", "a", "r", "r", "a", "y", "(", ")">>))
    ELSE IF yaml_type = T_double_array THEN Ret(PyStr(<<"a", "s", "_", "d", "o", "u", "b", "l",
                                                       "e", "_", "a", "r", "r", "a", "y", "(",
                                                       ")">>))
    ELSE IF yaml_type = T_int_array THEN Ret(PyStr(<<"a", "s", "_", "i", "n", "t", "e", "g",
                                                    "e", "r", "_", "a", "r", "r", "a", "y", "(",
                                                    ")">>))
    ELSE IF yaml_type = T_bool_array THEN Ret(PyStr(<<"a", "s", "_", "b", "o", "o", "l", "_",
                                                     "a", "r", "r", "a", "y", "(", ")">>))
    ELSE IF yaml_type = T_string THEN Ret(PyStr(<<"a", "s", "_", "s", "t", "r", "i", "n", "g",
                                                 "(", ")">>))
    ELSE IF yaml_type = T_double THEN Ret(PyStr(S_as_double))
    ELSE IF yaml_type = T_int THEN Ret(PyStr(<<"a", "s", "_", "i", "n", "t", "(", ")">>))
    ELSE IF yaml_type = T_bool THEN Ret(PyStr(<<"a", "s", "_", "b", "o", "o", "l", "(", ")">>))
    ELSE invalid_yaml_type

\* array_type(defined_type)
array_type(defined_type) == Contains(defined_type, <<"a", "r", "r", "a", "y">>)

\* is_mapped_parameter(param_name)
is_mapped_parameter(param_name) == Contains(param_name, S_map_marker)

\* type_translation[defined_type]: the Python type of a value, of an element
\* for an array tag; a tag that is no key raises KeyError
type_translation(defined_type) ==
    IF defined_type \in {T_string, T_string_array} THEN Ret("str")
    ELSE IF defined_type \in {T_double, T_double_array} THEN Ret("float")
    ELSE IF defined_type \in {T_int, T_int_array} THEN Ret("int")
    ELSE IF defined_type \in {T_bool, T_bool_array} THEN Ret("bool")
    ELSE Raise("KeyError", <<>>)

\* the loop "for val in value": the first lookup that raises or element of
\* another type ends it
ElementsMatch(defined_type, value) ==
    IF value = <<>> THEN Ret(PyBool(TRUE))
    ELSE Then(type_translation(defined_type),
              LAMBDA t : Ret(PyBool(\A i \in 1..Len(value) : value[i].k = t)))

\* validate_type(defined_type, value): type(val) is compared, so a bool is
\* no int and an int is no float.  No function of the module calls it.
validate_type(defined_type, value) ==
    IF value.k = "list"
    THEN IF ~array_type(defined_type) THEN Ret(PyBool(FALSE))
         ELSE ElementsMatch(defined_type, value.items)
    ELSE IF array_type(defined_type) THEN Ret(PyBool(FALSE))
    ELSE Then(type_translation(defined_type),
              LAMBDA t : Ret(PyBool(value.k = t)))

\* initialization_fail_validation(param_name)
initialization_fail_validation(param_name) ==
    <<"t", "h", "r", "o", "w", " ", "r", "c", "l", "c", "p", "p", ":", ":", "e", "x",
      "c", "e", "p", "t", "i", "o", "n", "s", ":", ":", "I", "n", "v", "a", "l", "i", "d",
      "P", "a", "r", "a", "m", "e", "t", "e", "r", "V", "a", "l", "u", "e", "E", "x", "c",
      "e", "p", "t", "i", "o", "n", "(", "\"", "I", "n", "v", "a", "l", "i", "d", " ",
      "v", "a", "l", "u", "e", " ", "s", "e", "t", " ", "d", "u", "r", "i", "n", "g", " ",
      "i", "n", "i", "t", "i", "a", "l", "i", "z", "a", "t", "i", "o", "n", " ", "f", "o",
      "r", " ", "p", "a", "r", "a", "m", "e", "t", "e", "r", " ">>
    \o param_name
    \o <<":", " ", "+", " ", "v", "a", "l", "i", "d", "a", "t", "i", "o", "n", "_", "r",
         "e", "s", "u", "l", "t", ".", "e", "r", "r", "o", "r", "_", "m", "s", "g", "(",
         ")", ")", ";", "\"", ")", ";", " ">>

\* initialization_pass_validation(param_name, parameter_conversion)
initialization_pass_validation(param_name, parameter_conversion) == <<>>

\* update_parameter_fail_validation()
update_parameter_fail_validation == <<"r", "e", "t", "u", "r", "n", " ", "v", "a", "l", "i",
                                     "d", "a", "t", "i", "o", "n", "_", "r", "e", "s", "u", "l",
                                     "t", ";">>

\* update_parameter_pass_validation()
update_parameter_pass_validation == <<>>

(***************************************************************************)
(* dict access.                                                            *)
(***************************************************************************)
HasKey(d, key) == \E i \in 1..Len(d.items) : d.items[i][1] = key

\* d[key], for a key that is present
DictAt(d, key) == d.items[CHOOSE i \in 1..Len(d.items) : d.items[i][1] = key][2]

\* d.get(key, default)
DictGet(d, key, default) == IF HasKey(d, key) THEN DictAt(d, key) ELSE default

\* bool(v)
Truthy(v) ==
    CASE v.k = "none" -> FALSE
      [] v.k = "bool" -> v.b
      [] v.k = "int" -> v.n # 0
      [] v.k = "float" -> ~(v.sp = "num" /\ v.t = 0)
      [] v.k = "str" -> v.s # <<>>
      [] v.k \in {"list", "dict"} -> v.items # <<>>

(***************************************************************************)
(* class ValidationFunction                                                *)
(***************************************************************************)
\* function_name[-2:] == "<>"
IsGeneric(function_name) ==
    /\ Len(function_name) >= 2
    /\ SubSeq(function_name, Len(function_name) - 1, Len(function_name)) = <<"<", ">">>

\* ValidationFunction.__init__ (typechecked: function_name and defined_type
\* are str, arguments is a list or None)
ValidationFunction(function_name, arguments, defined_type) ==
    IF defined_type.k # "str" \/ arguments.k \notin {"none", "list"}
    THEN Raise("TypeError", <<>>)
    ELSE IF IsGeneric(function_name)
    THEN Then(cpp_primitive_type_from_defined_type(defined_type.s),
              LAMBDA template_type :
                Ret([function_name |->
                         SubSeq(function_name, 1, Len(function_name) - 2)
                         \o <<"<">> \o template_type.s \o <<">">>,
                     arguments |-> IF arguments.k = "none" THEN <<>> ELSE arguments.items]))
    ELSE Ret([function_name |-> function_name,
              arguments |-> IF arguments.k = "none" THEN <<>> ELSE arguments.items])

\* val_func = cpp_str_func_from_python_val(a); val_func(a)
ArgText(a) ==
    Then(cpp_str_func_from_python_val(a), LAMBDA val_func : CallValFunc(val_func, a))

RECURSIVE InnerArgsText(_)
\* the elements of a list argument, ", " between them
InnerArgsText(arg) ==
    IF arg = <<>> THEN Ret(PyStr(<<>>))
    ELSE Then(ArgText(Head(arg)), LAMBDA first :
         Then(InnerArgsText(Tail(arg)), LAMBDA rest :
              Ret(PyStr(first.s \o (IF Len(arg) = 1 THEN <<>> ELSE S_comma) \o rest.s))))

\* the same with a list argument refused
OneArgText_no_list(arg) ==
    IF arg.k = "list" THEN compile_error(S_invalid_arg_type \o S_class_list)
    ELSE Then(ArgText(arg), LAMBDA one : Ret(PyStr(S_comma \o one.s)))

\* one turn of the loop over self.arguments
OneArgText(arg) ==
    IF arg.k = "list"
    THEN Then(InnerArgsText(arg.items),
              LAMBDA inner : Ret(PyStr(S_comma_brace \o inner.s \o <<"}">>)))
    ELSE Then(ArgText(arg), LAMBDA one : Ret(PyStr(S_comma \o one.s)))

RECURSIVE ArgsText(_)
\* the loop over self.arguments
ArgsText(arguments) ==
    IF arguments = <<>> THEN Ret(PyStr(<<>>))
    ELSE Then(OneArgText(Head(arguments)), LAMBDA first :
         Then(ArgsText(Tail(arguments)), LAMBDA rest :
              Ret(PyStr(first.s \o rest.s))))

\* ValidationFunction.__str__
ValidationFunction_str(self) ==
    Then(ArgsText(self.arguments),
         LAMBDA args : Ret(PyStr(self.function_name \o S_open_call \o args.s \o <<")">>)))

(***************************************************************************)
(* class ParameterValidation                                               *)
(***************************************************************************)
ParameterValidation(invalid_effect, valid_effect, validation_function) ==
    [invalid_effect |-> invalid_effect,
     valid_effect |-> valid_effect,
     validation_function |-> validation_function]

\* ParameterValidation.__str__: the slots handed to the template
ParameterValidation_str(self) ==
    Then(ValidationFunction_str(self.validation_function),
         LAMBDA f : Ret([validation_function |-> f.s,
                         valid_effect |-> self.valid_effect,
                         invalid_effect |-> self.invalid_effect]))

\* the loop "for parameter_validation in self.parameter_validations"
ParameterValidations_str(pvs) ==
    Collect([i \in 1..Len(pvs) |-> ParameterValidation_str(pvs[i])])

(***************************************************************************)
(* The descriptor classes.  An object is a record of its attributes; its   *)
(* __str__ returns the slots it hands to its template (the templates are   *)
(* rendered by jinja2).                                                    *)
(***************************************************************************)
DeclareParameter(parameter_name, parameter_description, parameter_read_only, parameter_type, has_default_value) ==
    [parameter_name |-> parameter_name,
     parameter_description |-> parameter_description,
     parameter_read_only |-> parameter_read_only,
     parameter_type |-> parameter_type,
     has_default_value |-> has_default_value]

DeclareParameter_str(self) ==
    Ret([parameter_name |-> self.parameter_name,
         parameter_type |-> Upper(self.parameter_type),
         parameter_description |-> self.parameter_description,
         parameter_read_only |-> bool_to_str(PyBool(self.parameter_read_only)).val.s,
         default_value |-> IF self.has_default_value THEN S_not_empty ELSE <<>>])

UpdateParameter(parameter_name, parameter_as_function, parameter_validations) ==
    [parameter_name |-> parameter_name,
     parameter_as_function |-> parameter_as_function,
     parameter_validations |-> parameter_validations]

UpdateParameter_str(self) ==
    Then(ParameterValidations_str(self.parameter_validations),
         LAMBDA pv : Ret([parameter_name |-> self.parameter_name,
                          parameter_validations |-> pv,
                          parameter_as_function |-> self.parameter_as_function]))

DeclareParameterSet(parameter_name, parameter_as_function, parameter_validations) ==
    [parameter_name |-> parameter_name,
     parameter_as_function |-> parameter_as_function,
     parameter_validations |-> parameter_validations]

DeclareParameterSet_str(self) ==
    Then(ParameterValidations_str(self.parameter_validations),
         LAMBDA pv : Ret([parameter_name |-> self.parameter_name,
                          parameter_validations |-> pv,
                          parameter_as_function |-> self.parameter_as_function]))

DynamicDeclareParameter(parameter_name, parameter_description, parameter_read_only, parameter_type, has_default_value, parameter_as_function, parameter_validations) ==
    [parameter_name |-> parameter_name,
     parameter_description |-> parameter_description,
     parameter_read_only |-> parameter_read_only,
     parameter_type |-> parameter_type,
     has_default_value |-> has_default_value,
     parameter_as_function |-> parameter_as_function,
     parameter_validations |-> parameter_validations]

\* the slots, given tmp = self.parameter_name.split('.') of two parts or more
\* and mapped_param = tmp[-2].split('_')[-1]
DynamicSlots(self, pv, tmp, mapped_param) ==
    [parameter_name |-> Join(Append(SubSeq(tmp, 1, Len(tmp) - 2), Last(tmp)), <<".">>),
     parameter_type |-> Upper(self.parameter_type),
     parameter_description |-> self.parameter_description,
     parameter_read_only |-> bool_to_str(PyBool(self.parameter_read_only)).val.s,
     default_value |-> IF self.has_default_value THEN S_not_empty ELSE <<>>,
     parameter_validations |-> pv,
     parameter_as_function |-> self.parameter_as_function,
     mapped_param |-> mapped_param,
     mapped_param_underscore |-> Replace(mapped_param, ".", "_"),
     parameter_field |-> Last(tmp),
     parameter_map |->
         Join(Append(SubSeq(tmp, 1, Len(tmp) - 2), mapped_param \o S_map_suffix), <<".">>)]

\* the path decomposition: tmp[-2] of a list shorter than two raises IndexError
DynamicDecompose(self, pv, tmp) ==
    IF Len(tmp) < 2 THEN Raise("IndexError", <<>>)
    ELSE Ret(DynamicSlots(self, pv, tmp, Last(Split(tmp[Len(tmp) - 1], "_"))))

\* DynamicDeclareParameter.__str__
DynamicDeclareParameter_str(self) ==
    Then(ParameterValidations_str(self.parameter_validations),
         LAMBDA pv : DynamicDecompose(self, pv, Split(self.parameter_name, ".")))

(***************************************************************************)
(* class VariableDeclaration                                               *)
(***************************************************************************)
VariableDeclaration(variable_type, variable_name, value) ==
    [variable_type |-> variable_type, variable_name |-> variable_name, value |-> value]

\* val_func(val) used as a str operand: a None result cannot be concatenated
ElementText(val_func, val) ==
    Then(CallValFunc(val_func, val),
         LAMBDA r : IF r.k = "none" THEN Raise("TypeError", <<>>) ELSE Ret(r))

RECURSIVE ElementsText(_, _)
\* the elements of a list value, ", " after all but the last
ElementsText(val_func, value) ==
    IF value = <<>> THEN Ret(PyStr(<<>>))
    ELSE Then(ElementText(val_func, Head(value)), LAMBDA first :
         Then(ElementsText(val_func, Tail(value)), LAMBDA rest :
              Ret(PyStr(first.s \o (IF Len(value) = 1 THEN <<>> ELSE S_comma) \o rest.s))))

\* the declaration text, given val_func and head = type_str + " " + name
DeclareText(self, val_func, head) ==
    IF self.value.k = "none" THEN Ret(PyStr(head \o <<";">>))
    ELSE IF self.value.k = "list"
    THEN Then(ElementsText(val_func, self.value.items),
              LAMBDA elems : Ret(PyStr(head \o S_eq \o <<"{">> \o elems.s \o <<"}", ";">>)))
    ELSE Then(CallValFunc(val_func, self.value),
              LAMBDA value_str : Ret(PyStr(head \o S_eq \o value_str.s \o <<";">>)))

\* VariableDeclaration.__str__
VariableDeclaration_str(self) ==
    Then(cpp_str_func_from_defined_type(self.variable_type), LAMBDA val_func :
    Then(cpp_type_from_defined_type(self.variable_type), LAMBDA type_str :
         DeclareText(self, val_func, type_str.s \o <<" ">> \o self.variable_name)))

(***************************************************************************)
(* class Struct.  The structs live in a heap (a sequence); a reference to  *)
(* a Struct is its index, and sub_structs holds references.                *)
(***************************************************************************)
Struct(struct_name, fields) ==
    [struct_name |-> struct_name, fields |-> fields, sub_structs |-> <<>>]

\* Struct.add_field, with the field put first
add_field_first(self, field) == [self EXCEPT !.fields = <<field>> \o @]

\* Struct.add_field
add_field(self, field) == [self EXCEPT !.fields = Append(@, field)]

\* Struct.add_sub_struct
add_sub_struct(self, sub_struct) == [self EXCEPT !.sub_structs = Append(@, sub_struct)]

\* the loop "for field in self.fields": each str(field) + "\n"
Fields_str(fields) ==
    Collect([i \in 1..Len(fields) |->
                Then(VariableDeclaration_str(fields[i]),
                     LAMBDA text : Ret(text.s \o <<"\n">>))])

\* the slots of the declare_struct template
StructSlots(self, field_str, sub_struct_str, mapped) ==
    [struct_name |-> pascal_case(self.struct_name),
     struct_instance |-> IF mapped THEN <<>> ELSE self.struct_name,
     struct_fields |-> field_str,
     sub_structs |-> sub_struct_str,
     map_value_type |-> IF mapped THEN pascal_case(self.struct_name) ELSE <<>>,
     map_name |->
         IF mapped
         THEN Replace(Last(Split(self.struct_name, "_")) \o S_map_suffix, ".", "_")
         ELSE <<>>]

RECURSIVE Struct_str(_, _)
\* Struct.__str__: the sub-structs are rendered before the fields
Struct_str(heap, ref) ==
    Then(Collect([i \in 1..Len(heap[ref].sub_structs) |->
                     Struct_str(heap, heap[ref].sub_structs[i])]),
         LAMBDA sub_struct_str :
    Then(Fields_str(heap[ref].fields), LAMBDA field_str :
         Ret(StructSlots(heap[ref], field_str, sub_struct_str,
                         is_mapped_parameter(heap[ref].struct_name)))))

\* Struct.inner_content: the fields are rendered before the sub-structs
inner_content(heap, ref) ==
    Then(Fields_str(heap[ref].fields), LAMBDA field_str :
    Then(Collect([i \in 1..Len(heap[ref].sub_structs) |->
                     Struct_str(heap, heap[ref].sub_structs[i])]),
         LAMBDA sub_struct_str :
         Ret([struct_fields |-> field_str, sub_structs |-> sub_struct_str])))

(***************************************************************************)
(* GenParamStruct.preprocess_inputs                                        *)
(***************************************************************************)
\* the same without the [1:]: every namespace name is kept
ParamName_with_root(name, nested_name_list) ==
    Concat([i \in 1..Len(nested_name_list) |-> nested_name_list[i] \o <<".">>]) \o name

\* "".join(x + "." for x in nested_name_list[1:]) + name
ParamName(name, nested_name_list) ==
    Concat([i \in 1..(Len(nested_name_list) - 1) |->
                nested_name_list[i + 1] \o <<".">>]) \o name

\* if args is not None and not isinstance(args, list): args = [args]
WrapArgs(args) == IF args.k # "none" /\ args.k # "list" THEN PyList(<<args>>) ELSE args

\* the loop "for func_name in validations_dict".  Iterating a validation
\* entry that is no dict raises TypeError, unless it is an empty str or list.
BuildValidations(validations_dict, defined_type) ==
    IF validations_dict.k = "dict"
    THEN Collect([i \in 1..Len(validations_dict.items) |->
                     ValidationFunction(validations_dict.items[i][1],
                                        WrapArgs(validations_dict.items[i][2]),
                                        defined_type)])
    ELSE IF validations_dict.k = "list" /\ validations_dict.items = <<>> THEN Ret(<<>>)
    ELSE IF validations_dict.k = "str" /\ validations_dict.s = <<>> THEN Ret(<<>>)
    ELSE Raise("TypeError", <<>>)

\* value["type"] of a dict without the key raises KeyError, which is turned
\* into a compile error; value["type"] of a value that is no dict raises
\* TypeError, which is not caught.
preprocess_inputs(name, value, nested_name_list) ==
    IF value.k # "dict" THEN Raise("TypeError", <<>>)
    ELSE IF ~HasKey(value, K_type)
    THEN compile_error(S_no_type \o ParamName(name, nested_name_list))
    ELSE Then(BuildValidations(DictGet(value, K_validation, PyDict(<<>>)),
                               DictAt(value, K_type)),
              LAMBDA validations :
                Ret([param_name |-> ParamName(name, nested_name_list),
                     defined_type |-> DictAt(value, K_type),
                     default_value |-> DictGet(value, K_default_value, None_),
                     description |-> DictGet(value, K_description, PyStr(<<>>)),
                     read_only |-> Truthy(DictGet(value, K_read_only, PyBool(FALSE))),
                     validations |-> validations]))

(***************************************************************************)
(* The schemas explored.  A schema document is what yaml.load_all          *)
(* delivers: a dict with the root namespace as its only key.               *)
(* Explored are: every tree shape of at most MaxNodes nodes, with plain    *)
(* leaves; every leaf body of LeafBodies, in a static and in a mapped      *)
(* position; and documents of two branches.  Names contain no "."; a       *)
(* child's name is set by its kind and its position among its siblings,    *)
(* so the keys of a dict are distinct.                                     *)
(***************************************************************************)
MaxNodes == 4

Tags ==
    {T_string, T_double, T_int, T_bool,
     T_string_array, T_double_array, T_int_array, T_bool_array}

\* a parameter leaf's name, an ordinary namespace's and a mapped namespace's
LeafName(i) == <<"p">> \o NatStr(i)

NsName(i) == <<"n">> \o NatStr(i)

MapName(i) == <<"j">> \o S_map_marker \o <<"k", "_", "m">> \o NatStr(i)

TypedLeaf == PyDict(<< <<K_type, PyStr(T_double)>>, <<K_default_value, PyFloat(15)>> >>)

UntypedLeaf == PyDict(<< <<K_default_value, PyFloat(10)>> >>)

RECURSIVE TreesOf(_, _)
RECURSIVE ForestsOf(_, _)
\* the <<key, value>> entries of exactly n nodes for the i-th key of a dict
TreesOf(n, i) ==
    IF n = 1
    THEN {<<LeafName(i), TypedLeaf>>, <<LeafName(i), UntypedLeaf>>,
          <<LeafName(i), PyInt(5)>>,
          <<NsName(i), PyDict(<<>>)>>, <<MapName(i), PyDict(<<>>)>>}
    ELSE {<<nm, PyDict(f)>> : nm \in {NsName(i), MapName(i)}, f \in ForestsOf(n - 1, 1)}

\* the item lists of exactly n nodes whose first key is the i-th of its dict
ForestsOf(n, i) ==
    IF n = 0 THEN {<<>>}
    ELSE UNION {{<<c>> \o rest : c \in TreesOf(m, i), rest \in ForestsOf(n - m, i + 1)} :
                m \in 1..n}

\* the root entry: the root namespace is named robot, or has a mapped name
RootEntries(n) ==
    IF n = 1
    THEN {<<N_robot, TypedLeaf>>, <<N_robot, UntypedLeaf>>, <<N_robot, PyInt(5)>>,
          <<N_robot, PyStr(V_fast)>>, <<N_robot, PyList(<<PyInt(5)>>)>>,
          <<N_robot, None_>>,
          <<N_robot, PyDict(<<>>)>>, <<MapName(0), PyDict(<<>>)>>}
    ELSE {<<nm, PyDict(f)>> : nm \in {N_robot, MapName(0)}, f \in ForestsOf(n - 1, 1)}

ShapeDocs == UNION {{PyDict(<<r>>) : r \in RootEntries(n)} : n \in 1..MaxNodes}

\* documents that do not have exactly one root element
BadRootDocs ==
    {PyDict(<<>>),
     PyDict(<< <<N_robot, PyDict(<< <<LeafName(1), TypedLeaf>> >>)>>,
               <<N_arm, PyDict(<< <<LeafName(1), TypedLeaf>> >>)>> >>)}

\* the parts of a leaf body
\* tags that are none of the eight
OtherTags ==
    {<<"f", "l", "o", "a", "t">>,
     <<"i", "n", "t", "e", "g", "e", "r", "_", "a", "r", "r", "a", "y">>}

TypeParts == {<<>>} \cup {<< <<K_type, PyStr(t)>> >> : t \in Tags \cup OtherTags}

DefaultValues ==
    {PyInt(1), PyFloat(15), PyFloat(20), PyFloatSpecial("nan"), PyBool(TRUE),
     PyStr(V_fast),
     PyList(<<>>), PyList(<<PyFloat(15), PyFloat(20)>>), PyList(<<PyInt(1)>>),
     PyList(<<PyStr(V_fast)>>), PyList(<<PyBool(FALSE), PyBool(TRUE)>>),
     PyList(<<PyFloat(15), PyStr(V_fast)>>)}

ValidationValues ==
    {PyDict(<<>>),
     PyDict(<< <<F_bounds, PyList(<<PyInt(0), PyInt(10)>>)>> >>),
     PyDict(<< <<F_bounds, PyList(<<PyFloat(0), PyFloat(105)>>)>> >>),
     PyDict(<< <<F_check, PyList(<<PyBool(TRUE), PyBool(FALSE)>>)>> >>),
     PyDict(<< <<F_check, PyList(<<PyStr(V_fast), PyInt(-3)>>)>> >>),
     PyDict(<< <<F_check, PyInt(7)>> >>),
     PyDict(<< <<F_check, None_>> >>),
     PyDict(<< <<F_check, PyList(<<None_>>)>> >>),
     PyDict(<< <<F_one_of, PyList(<<PyList(<<PyInt(1), PyInt(2)>>)>>)>> >>),
     PyDict(<< <<F_one_of, PyList(<<PyList(<<>>)>>)>> >>),
     PyDict(<< <<F_check, PyList(<<PyInt(1), PyList(<<PyList(<<PyInt(2)>>)>>)>>)>> >>),
     PyDict(<< <<F_check, PyList(<<PyDict(<<>>)>>)>> >>),
     PyDict(<< <<F_bounds, PyList(<<PyInt(0), PyInt(10)>>)>>,
               <<F_one_of, PyList(<<PyList(<<PyFloat(15)>>)>>)>>,
               <<F_check, PyList(<<PyBool(TRUE)>>)>> >>),
     PyDict(<< <<K_type, PyStr(T_int)>> >>)}

ExtraParts ==
    {<<>>, << <<K_description, PyStr(V_fast)>>, <<K_read_only, PyBool(TRUE)>> >>}

\* a leaf body: its keys in either order, with a default or with validations
LeafBodies ==
    {PyDict(t \o d \o x) : t \in TypeParts, d \in {<< <<K_default_value,
                                                   v>> >> : v \in DefaultValues}, x \in ExtraParts}
    \cup {PyDict(d \o t) : t \in TypeParts, d \in {<< <<K_default_value,
                                                   v>> >> : v \in DefaultValues}}
    \cup {PyDict(t \o v \o x) : t \in TypeParts, v \in {<< <<K_validation,
                                                        v>> >> : v \in ValidationValues}, x \in ExtraParts}
    \cup {PyDict(v \o t) : t \in TypeParts, v \in {<< <<K_validation,
                                                   v>> >> : v \in ValidationValues}}

\* a leaf body directly under the root, and directly under a mapped namespace
BodyDocs ==
    {PyDict(<< <<N_robot, PyDict(<< <<N_speed, b>> >>)>> >>) : b \in LeafBodies}
    \cup {PyDict(<< <<N_robot, PyDict(<< <<MapName(1), PyDict(<< <<N_speed, b>> >>)>> >>)>> >>) :
            b \in LeafBodies}

\* a branch: a namespace with one or two plain leaves, or with a leaf and
\* an ordinary namespace around a leaf
Branches(nm) ==
    {<<nm, PyDict(<< <<LeafName(1), TypedLeaf>> >>)>>,
     <<nm, PyDict(<< <<LeafName(1), TypedLeaf>>, <<LeafName(2), TypedLeaf>> >>)>>,
     <<nm, PyDict(<< <<NsName(1), PyDict(<< <<LeafName(1), TypedLeaf>> >>)>>,
                     <<LeafName(2), TypedLeaf>> >>)>>}

\* two branches, ordinary or mapped, and a leaf after them
BranchDocs ==
    {PyDict(<< <<N_robot, PyDict(<<a, b, <<LeafName(3), TypedLeaf>> >>)>> >>) :
        a \in Branches(NsName(1)) \cup Branches(MapName(1)),
        b \in Branches(NsName(2)) \cup Branches(MapName(2))}

Docs == ShapeDocs \cup BadRootDocs \cup BodyDocs \cup BranchDocs

(***************************************************************************)
(* class GenParamStruct: the state of one run.                             *)
(***************************************************************************)
VARIABLES
    doc,                         \* the document yaml.load_all delivered
    pc,                          \* where run() is
    call,                        \* the parse_dict call about to run, if any
    stack,                       \* the parse_dict calls inside their for loop
    nested_name,                 \* the nested_name list shared by the calls
    structs,                     \* the heap of Struct objects
    struct_tree,                 \* self.struct_tree: a reference into structs
    namespace,                   \* self.namespace
    update_parameters,           \* self.update_parameters
    declare_parameters,          \* self.declare_parameters
    declare_dynamic_parameters,  \* self.declare_dynamic_parameters
    declare_parameter_sets,      \* self.declare_parameter_sets
    exc,                         \* the exception run() ended with, if any
    code,                        \* str(self), once computed
    output_file                  \* what has been written to output_file

vars ==
    <<doc, pc, call, stack, nested_name, structs, struct_tree, namespace,
      update_parameters, declare_parameters, declare_dynamic_parameters,
      declare_parameter_sets, exc, code, output_file>>

lists ==
    <<update_parameters, declare_parameters, declare_dynamic_parameters,
      declare_parameter_sets>>

NoExc == [exc |-> "", msg |-> <<>>, in |-> ""]

\* the exception r, raised in the named method
ExcOf(r, in) == [exc |-> r.exc, msg |-> r.msg, in |-> in]

\* GenParamStruct.__init__, and the document read by run()
Init ==
    /\ doc \in Docs
    /\ pc = "start"
    /\ call = <<>>
    /\ stack = <<>>
    /\ nested_name = <<>>
    /\ structs = <<Struct(S_Params, <<>>)>>
    /\ struct_tree = 1
    /\ namespace = <<>>
    /\ update_parameters = <<>>
    /\ declare_parameters = <<>>
    /\ declare_dynamic_parameters = <<>>
    /\ declare_parameter_sets = <<>>
    /\ exc = NoExc
    /\ code = <<>>
    /\ output_file = <<>>

\* run() fails: the exception leaves run(), nothing else changes
Fails(e) ==
    /\ pc' = "failed"
    /\ exc' = e
    /\ call' = <<>>

\* run(), from reading the document to the call of parse_dict on the root
run_load ==
    /\ pc = "start"
    /\ IF Len(doc.items) # 1
       THEN /\ Fails(ExcOf(compile_error(<<"t", "h", "e", " ", "c", "o", "n", "t", "r", "o",
                                          "l", "l", "e", "r", " ", "y", "a", "m", "l", " ", "d",
                                          "e", "f", "i", "n", "i", "t", "i", "o", "n", " ", "m",
                                          "u", "s", "t", " ", "o", "n", "l", "y", " ", "h", "a",
                                          "v", "e", " ", "o", "n", "e", " ", "r", "o", "o", "t",
                                          " ", "e", "l", "e", "m", "e", "n", "t">>), "run"))
            /\ UNCHANGED namespace
       ELSE /\ namespace' = doc.items[1][1]
            /\ call' = <<[name |-> doc.items[1][1], root_map |-> doc.items[1][2]]>>
            /\ pc' = "walk"
            /\ exc' = exc
    /\ UNCHANGED <<doc, stack, nested_name, structs, struct_tree, lists, code, output_file>>

\* a variant that looks at every value
IsNamespace_any_value(root_map) ==
    /\ root_map.k = "dict"
    /\ \E i \in 1..Len(root_map.items) : root_map.items[i][2].k = "dict"

\* isinstance(root_map, dict) and isinstance(next(iter(root_map.values())), dict):
\* only the first value is looked at
IsNamespace(root_map) ==
    /\ root_map.k = "dict"
    /\ root_map.items # <<>>
    /\ root_map.items[1][2].k = "dict"

\* next() of the iterator of an empty dict raises StopIteration
ConditionRaises(root_map) == root_map.k = "dict" /\ root_map.items = <<>>

\* a parse_dict call returns: to the for loop of the calling parse_dict, which
\* pops nested_name and moves to its next key, or to run()
Returns(callers) ==
    IF callers = <<>>
    THEN /\ pc' = "walked"
         /\ stack' = callers
         /\ nested_name' = nested_name
    ELSE /\ pc' = pc
         /\ stack' = [callers EXCEPT ![Len(callers)].pos = @ + 1]
         /\ nested_name' = Front(nested_name)

\* parse_dict, the namespace branch up to its for loop
parse_dict_namespace ==
    /\ pc = "walk"
    /\ call # <<>>
    /\ ~ConditionRaises(call[1].root_map)
    /\ IsNamespace(call[1].root_map)
    /\ LET cur_struct_tree == struct_tree
           sub_struct == Len(structs) + 1
       IN  /\ structs' = Append([structs EXCEPT ![struct_tree] = add_sub_struct(@, sub_struct)],
                                Struct(call[1].name, <<>>))
           /\ struct_tree' = sub_struct
           /\ stack' = Append(stack, [name |-> call[1].name,
                                      root_map |-> call[1].root_map,
                                      pos |-> 0,
                                      cur_struct_tree |-> cur_struct_tree])
    /\ call' = <<>>
    /\ UNCHANGED <<doc, pc, nested_name, namespace, lists, exc, code, output_file>>

\* parse_dict: evaluating the condition raises StopIteration
parse_dict_raises ==
    /\ pc = "walk"
    /\ call # <<>>
    /\ ConditionRaises(call[1].root_map)
    /\ Fails([exc |-> "StopIteration", msg |-> <<>>, in |-> "parse_dict"])
    /\ UNCHANGED <<doc, stack, nested_name, structs, struct_tree, namespace, lists,
                   code, output_file>>

\* one turn of "for key in root_map": a dict value is descended into, any
\* other value is passed over
parse_dict_for ==
    /\ pc = "walk"
    /\ call = <<>>
    /\ stack # <<>>
    /\ LET frame == stack[Len(stack)]
       IN  /\ frame.pos < Len(frame.root_map.items)
           /\ LET key == frame.root_map.items[frame.pos + 1][1]
                  val == frame.root_map.items[frame.pos + 1][2]
              IN  IF val.k = "dict"
                  THEN /\ nested_name' = Append(nested_name, frame.name)
                       /\ call' = <<[name |-> key, root_map |-> val]>>
                       /\ stack' = stack
                  ELSE /\ stack' = [stack EXCEPT ![Len(stack)].pos = @ + 1]
                       /\ UNCHANGED <<nested_name, call>>
    /\ UNCHANGED <<doc, pc, structs, struct_tree, namespace, lists, exc, code, output_file>>

\* a variant that returns with the cursor left where the loop brought it
parse_dict_return_unrestored ==
    /\ pc = "walk"
    /\ call = <<>>
    /\ stack # <<>>
    /\ stack[Len(stack)].pos = Len(stack[Len(stack)].root_map.items)
    /\ Returns(Front(stack))
    /\ UNCHANGED <<doc, call, structs, struct_tree, namespace, lists, exc, code, output_file>>

\* parse_dict, after its for loop: the cursor is restored and the call returns
parse_dict_return ==
    /\ pc = "walk"
    /\ call = <<>>
    /\ stack # <<>>
    /\ LET frame == stack[Len(stack)]
       IN  /\ frame.pos = Len(frame.root_map.items)
           /\ struct_tree' = frame.cur_struct_tree
           /\ Returns(Front(stack))
    /\ UNCHANGED <<doc, call, structs, namespace, lists, exc, code, output_file>>

\* a variant that lists the validation functions last to first
Validations_reversed(invalid_effect, valid_effect, validations) ==
    [i \in 1..Len(validations) |->
        ParameterValidation(invalid_effect, valid_effect,
                            validations[Len(validations) + 1 - i])]

\* the loop "for validation_function in validations": one ParameterValidation
\* per validation function, with the effects of the descriptor's role
Validations(invalid_effect, valid_effect, validations) ==
    [i \in 1..Len(validations) |->
        ParameterValidation(invalid_effect, valid_effect, validations[i])]

\* what a leaf method did before it returned or raised
LeafResult(raised, fields, declare, update, set, dynamic) ==
    [raised |-> raised, fields |-> fields, declare |-> declare, update |-> update,
     set |-> set, dynamic |-> dynamic]

\* parse_params after preprocess_inputs returned p, with the
\* VariableDeclaration var and parameter_conversion as computed.  The
\* typechecked constructors raise TypeError for a description that is no str.
parse_params_body(p, var, parameter_conversion) ==
    IF p.description.k # "str"
    THEN LeafResult(Raise("TypeError", <<>>), <<var>>, <<>>, <<>>, <<>>, <<>>)
    ELSE IF Raised(parameter_conversion)
    THEN LeafResult(parameter_conversion, <<var>>,
                    <<DeclareParameter(p.param_name, p.description.s, p.read_only,
                                       p.defined_type.s, p.default_value.k # "none")>>,
                    <<>>, <<>>, <<>>)
    ELSE LeafResult(Ret(None_), <<var>>,
                    <<DeclareParameter(p.param_name, p.description.s, p.read_only,
                                       p.defined_type.s, p.default_value.k # "none")>>,
                    <<UpdateParameter(
                        p.param_name, parameter_conversion.val.s,
                        Validations(update_parameter_fail_validation,
                                    update_parameter_pass_validation, p.validations))>>,
                    <<DeclareParameterSet(
                        p.param_name, parameter_conversion.val.s,
                        Validations(initialization_fail_validation(p.param_name),
                                    initialization_pass_validation(
                                        p.param_name, parameter_conversion.val.s),
                                    p.validations))>>,
                    <<>>)

\* parse_params as far as it gets, given what preprocess_inputs did
parse_params_result(name, pre) ==
    IF Raised(pre) THEN LeafResult(pre, <<>>, <<>>, <<>>, <<>>, <<>>)
    ELSE IF pre.val.defined_type.k # "str"
    THEN LeafResult(Raise("TypeError", <<>>), <<>>, <<>>, <<>>, <<>>, <<>>)
    ELSE parse_params_body(
            pre.val,
            VariableDeclaration(pre.val.defined_type.s, name, pre.val.default_value),
            get_parameter_as_function_str(pre.val.defined_type.s))

\* parse_dynamic_params after preprocess_inputs returned p
parse_dynamic_params_body(p, var, parameter_conversion) ==
    IF Raised(parameter_conversion)
    THEN LeafResult(parameter_conversion, <<var>>, <<>>, <<>>, <<>>, <<>>)
    ELSE IF p.description.k # "str"
    THEN LeafResult(Raise("TypeError", <<>>), <<var>>, <<>>, <<>>, <<>>, <<>>)
    ELSE LeafResult(Ret(None_), <<var>>, <<>>, <<>>, <<>>,
                    <<DynamicDeclareParameter(
                        p.param_name, p.description.s, p.read_only, p.defined_type.s,
                        p.default_value.k # "none", parameter_conversion.val.s,
                        Validations(initialization_fail_validation(p.param_name),
                                    initialization_pass_validation(
                                        p.param_name, parameter_conversion.val.s),
                                    p.validations))>>)

\* parse_dynamic_params as far as it gets, given what preprocess_inputs did
parse_dynamic_params_result(name, pre) ==
    IF Raised(pre) THEN LeafResult(pre, <<>>, <<>>, <<>>, <<>>, <<>>)
    ELSE IF pre.val.defined_type.k # "str"
    THEN LeafResult(Raise("TypeError", <<>>), <<>>, <<>>, <<>>, <<>>, <<>>)
    ELSE parse_dynamic_params_body(
            pre.val,
            VariableDeclaration(pre.val.defined_type.s, name, pre.val.default_value),
            get_parameter_as_function_str(pre.val.defined_type.s))

\* the same decided by every namespace the walk is inside
IsDynamic_any_namespace ==
    \E i \in 1..Len(stack) : is_mapped_parameter(stack[i].name)

\* the struct the cursor is at decides the form of the descriptors
IsDynamic == is_mapped_parameter(structs[struct_tree].struct_name)

\* a variant in which the leaf's DeclareParameterSet is not appended
Leaf_ends_without_set(r) ==
    /\ structs' = IF r.fields = <<>> THEN structs
                  ELSE [structs EXCEPT ![struct_tree] = add_field(@, r.fields[1])]
    /\ declare_parameters' = declare_parameters \o r.declare
    /\ update_parameters' = update_parameters \o r.update
    /\ declare_parameter_sets' = declare_parameter_sets
    /\ declare_dynamic_parameters' = declare_dynamic_parameters \o r.dynamic
    /\ IF Raised(r.raised)
       THEN /\ Fails(ExcOf(r.raised, "parse_dict"))
            /\ UNCHANGED <<stack, nested_name>>
       ELSE /\ call' = <<>>
            /\ exc' = exc
            /\ Returns(stack)

\* a leaf method ends: what it appended stays, and it raises or returns
Leaf_ends(r) ==
    /\ structs' = IF r.fields = <<>> THEN structs
                  ELSE [structs EXCEPT ![struct_tree] = add_field(@, r.fields[1])]
    /\ declare_parameters' = declare_parameters \o r.declare
    /\ update_parameters' = update_parameters \o r.update
    /\ declare_parameter_sets' = declare_parameter_sets \o r.set
    /\ declare_dynamic_parameters' = declare_dynamic_parameters \o r.dynamic
    /\ IF Raised(r.raised)
       THEN /\ Fails(ExcOf(r.raised, "parse_dict"))
            /\ UNCHANGED <<stack, nested_name>>
       ELSE /\ call' = <<>>
            /\ exc' = exc
            /\ Returns(stack)

\* parse_dict, the leaf branch under an ordinary struct: parse_params
parse_params ==
    /\ pc = "walk"
    /\ call # <<>>
    /\ ~ConditionRaises(call[1].root_map)
    /\ ~IsNamespace(call[1].root_map)
    /\ ~IsDynamic
    /\ Leaf_ends(parse_params_result(
            call[1].name,
            preprocess_inputs(call[1].name, call[1].root_map, nested_name)))
    /\ UNCHANGED <<doc, struct_tree, namespace, code, output_file>>

\* parse_dict, the leaf branch under a mapped struct: parse_dynamic_params
parse_dynamic_params ==
    /\ pc = "walk"
    /\ call # <<>>
    /\ ~ConditionRaises(call[1].root_map)
    /\ ~IsNamespace(call[1].root_map)
    /\ IsDynamic
    /\ Leaf_ends(parse_dynamic_params_result(
            call[1].name,
            preprocess_inputs(call[1].name, call[1].root_map, nested_name)))
    /\ UNCHANGED <<doc, struct_tree, namespace, code, output_file>>

\* str(x) for every x of a list, in order; the first exception ends it
StrEach(Str(_), list) == Collect([i \in 1..Len(list) |-> Str(list[i])])

\* GenParamStruct.__str__: the slots of the parameter_listener template, in
\* the order the dict display evaluates them; sub_structs[0] of a struct
\* without sub-structs raises IndexError
GenParamStruct_str ==
    IF structs[struct_tree].sub_structs = <<>> THEN Raise("IndexError", <<>>)
    ELSE
    Then(inner_content(structs, structs[struct_tree].sub_structs[1]),
         LAMBDA struct_content :
    Then(StrEach(UpdateParameter_str, update_parameters),
         LAMBDA update_params_set :
    Then(StrEach(DeclareParameter_str, declare_parameters),
         LAMBDA declare_params :
    Then(StrEach(DeclareParameterSet_str, declare_parameter_sets),
         LAMBDA declare_params_set :
    Then(StrEach(DynamicDeclareParameter_str, declare_dynamic_parameters),
         LAMBDA declare_set_dynamic_params :
         Ret([namespace |-> namespace,
              struct_content |-> struct_content,
              update_params_set |-> update_params_set,
              declare_params |-> declare_params,
              declare_params_set |-> declare_params_set,
              declare_set_dynamic_params |-> declare_set_dynamic_params]))))))

\* str(self) returned or raised
Str_ends(r) ==
    IF Raised(r)
    THEN /\ Fails(ExcOf(r, "__str__"))
         /\ code' = code
    ELSE /\ code' = <<r.val>>
         /\ pc' = "rendered"
         /\ UNCHANGED <<exc, call>>

\* run(): code = str(self)
run_str ==
    /\ pc = "walked"
    /\ Str_ends(GenParamStruct_str)
    /\ UNCHANGED <<doc, stack, nested_name, structs, struct_tree, namespace, lists,
                   output_file>>

\* a variant that also writes what there is after run() has failed
run_write_any ==
    /\ pc \in {"rendered", "failed"}
    /\ output_file' = code
    /\ pc' = "written"
    /\ UNCHANGED <<doc, call, stack, nested_name, structs, struct_tree, namespace,
                   lists, exc, code>>

\* run(): the code is written to output_file
run_write ==
    /\ pc = "rendered"
    /\ output_file' = code
    /\ pc' = "written"
    /\ UNCHANGED <<doc, call, stack, nested_name, structs, struct_tree, namespace,
                   lists, exc, code>>

Next ==
    \/ run_load
    \/ parse_dict_namespace
    \/ parse_dict_raises
    \/ parse_dict_for
    \/ parse_dict_return
    \/ parse_params
    \/ parse_dynamic_params
    \/ run_str
    \/ run_write

Spec == Init /\ [][Next]_vars

(***************************************************************************)
(* The properties.  They are stated over the document and over what the   *)
(* run has built; a path is the sequence of the names from the root        *)
(* namespace down to a node.                                               *)
(***************************************************************************)
RootName == doc.items[1][1]

RootValue == doc.items[1][2]

\* the path of the node parse_dict is about to be run on
CallPath == [i \in 1..Len(stack) |-> stack[i].name] \o <<call[1].name>>

\* a path without the name of the root namespace; the root's own path is kept
BelowRoot(path) == IF Len(path) > 1 THEN Tail(path) ELSE path

Dotted(path) == Join(path, <<".">>)

\* a non-empty mapping none of whose values is a mapping
PlainMapping(v) ==
    /\ v.k = "dict"
    /\ v.items # <<>>
    /\ \A i \in 1..Len(v.items) : v.items[i][2].k # "dict"

\* parse_dict is about to be run on a leaf without a type field
AtUntypedLeaf ==
    /\ pc = "walk"
    /\ call # <<>>
    /\ PlainMapping(call[1].root_map)
    /\ ~HasKey(call[1].root_map, K_type)

\* C1, as stated: a leaf without a type field ends the compilation with a
\* compile error whose message contains the leaf's dot-joined path, the name
\* of the root namespace included.
C1_FullPathInMessage ==
    [][AtUntypedLeaf =>
          /\ pc' = "failed"
          /\ exc'.exc = "YAMLSyntaxError"
          /\ Contains(exc'.msg, Dotted(CallPath))]_vars

\* C1, amended: a leaf without a type field ends the compilation with the
\* compile error "No type defined for parameter " followed by the leaf's
\* dot-joined path without the name of the root namespace.
C1_PathBelowRootInMessage ==
    [][AtUntypedLeaf =>
          /\ pc' = "failed"
          /\ exc' = [exc |-> "YAMLSyntaxError",
                     msg |-> S_ERROR \o S_no_type \o Dotted(BelowRoot(CallPath)),
                     in |-> "parse_dict"]]_vars

\* the compilation failed at an untyped leaf two namespaces deep
C1_Witness ==
    /\ pc = "failed"
    /\ Len(stack) = 2
    /\ exc.exc = "YAMLSyntaxError"
    /\ exc.msg = S_ERROR \o S_no_type \o NsName(1) \o <<".">> \o LeafName(1)

\* a mapping with a type key whose value is one of the eight type tags
IsParameterLeaf(v) ==
    /\ v.k = "dict"
    /\ HasKey(v, K_type)
    /\ DictAt(v, K_type).k = "str"
    /\ DictAt(v, K_type).s \in Tags

\* the number of parameter descriptors built so far
Descriptors == Len(declare_parameters) + Len(declare_dynamic_parameters)

\* C2, as stated: parse_dict builds a descriptor for the node it is run on
\* if and only if the node is a mapping with a type key of a recognized tag,
\* whatever the order of its keys and whether or not it has a validation
\* mapping.
C2_LeafIffTypedMapping ==
    [][(pc = "walk" /\ call # <<>>) =>
          (IsParameterLeaf(call[1].root_map)
              <=> (pc' # "failed" /\ Descriptors' = Descriptors + 1))]_vars

RECURSIVE ParameterLeaves(_, _)
\* the paths of the parameter leaves at and below the node v, whose path is
\* given
ParameterLeaves(v, path) ==
    IF IsParameterLeaf(v) THEN {path}
    ELSE IF v.k = "dict"
    THEN UNION {ParameterLeaves(v.items[i][2], Append(path, v.items[i][1])) :
                    i \in 1..Len(v.items)}
    ELSE {}

\* the paths of the parameter leaves of the document
DocLeaves == ParameterLeaves(RootValue, <<RootName>>)

RECURSIVE WellFormed(_)
\* a tree of non-empty namespaces over parameter leaves
WellFormed(v) ==
    \/ IsParameterLeaf(v)
    \/ /\ v.k = "dict"
       /\ v.items # <<>>
       /\ \A i \in 1..Len(v.items) : WellFormed(v.items[i][2])

RECURSIVE FieldCount(_)
\* the number of fields held by the first n structs
FieldCount(n) == IF n = 0 THEN 0 ELSE Len(structs[n].fields) + FieldCount(n - 1)

\* the names of the parameter descriptors, static and dynamic
DescriptorNames ==
    [i \in 1..Len(declare_parameters) |-> declare_parameters[i].parameter_name]
    \o [i \in 1..Len(declare_dynamic_parameters) |->
            declare_dynamic_parameters[i].parameter_name]

\* C3, as stated: the walk of a tree of namespaces over parameter leaves
\* does not fail, and after a walk every parameter leaf of the document has
\* exactly one descriptor and the struct tree holds one field per leaf.
C3_OneDescriptorPerLeaf ==
    /\ (pc = "failed" /\ exc.in = "parse_dict") => ~WellFormed(RootValue)
    /\ pc = "walked" =>
          /\ \A path \in DocLeaves :
                Cardinality({i \in 1..Len(DescriptorNames) :
                                DescriptorNames[i] = Dotted(BelowRoot(path))}) = 1
          /\ FieldCount(Len(structs)) = Cardinality(DocLeaves)

\* the position of a key among the keys of a mapping, 0 if it is none of them
KeyIndex(v, key) ==
    IF v.k = "dict" /\ \E i \in 1..Len(v.items) : v.items[i][1] = key
    THEN CHOOSE i \in 1..Len(v.items) : v.items[i][1] = key
    ELSE 0

RECURSIVE Position(_, _)
\* the key positions along a path of names below the node v
Position(v, names) ==
    IF names = <<>> THEN <<>>
    ELSE IF KeyIndex(v, Head(names)) = 0 THEN <<0>>
    ELSE <<KeyIndex(v, Head(names))>>
         \o Position(v.items[KeyIndex(v, Head(names))][2], Tail(names))

\* where in the document the parameter of a descriptor is declared
DocPosition(parameter_name) == Position(RootValue, Split(parameter_name, "."))

\* p comes before q in the depth-first order of the document
Precedes(p, q) ==
    \E i \in 1..Len(p) :
        /\ i <= Len(q)
        /\ p[i] < q[i]
        /\ \A j \in 1..(i - 1) : p[j] = q[j]

\* the descriptors of a list stand in document order
InDocumentOrder(list) ==
    \A i, j \in 1..Len(list) :
        i < j => Precedes(DocPosition(list[i].parameter_name),
                          DocPosition(list[j].parameter_name))

\* the struct that holds ref among its sub-structs
ParentStruct(ref) ==
    CHOOSE r \in 1..Len(structs) :
        \E i \in 1..Len(structs[r].sub_structs) : structs[r].sub_structs[i] = ref

RECURSIVE StructPath(_)
\* the names of the structs from the root namespace's down to ref
StructPath(ref) ==
    IF ref = 1 THEN <<>>
    ELSE Append(StructPath(ParentStruct(ref)), structs[ref].struct_name)

RECURSIVE NodeAt(_, _)
\* the node a path of names below v leads to
NodeAt(v, names) ==
    IF names = <<>> THEN v ELSE NodeAt(DictAt(v, Head(names)), Tail(names))

\* the namespace of the document a struct was built for
StructNode(ref) == NodeAt(RootValue, Tail(StructPath(ref)))

\* the fields and the sub-structs of a struct stand in the order of the keys
\* of its namespace
InDeclarationOrder(ref) ==
    /\ \A i \in 1..Len(structs[ref].fields) :
          KeyIndex(StructNode(ref), structs[ref].fields[i].variable_name) > 0
    /\ \A i, j \in 1..Len(structs[ref].fields) :
          i < j => KeyIndex(StructNode(ref), structs[ref].fields[i].variable_name)
                     < KeyIndex(StructNode(ref), structs[ref].fields[j].variable_name)
    /\ \A i \in 1..Len(structs[ref].sub_structs) :
          KeyIndex(StructNode(ref), structs[structs[ref].sub_structs[i]].struct_name) > 0
    /\ \A i, j \in 1..Len(structs[ref].sub_structs) :
          i < j => KeyIndex(StructNode(ref),
                            structs[structs[ref].sub_structs[i]].struct_name)
                     < KeyIndex(StructNode(ref),
                                structs[structs[ref].sub_structs[j]].struct_name)

\* the rendered slots of a list follow the descriptors of the list
RenderedInOrder(slots, list) ==
    /\ Len(slots) = Len(list)
    /\ \A i \in 1..Len(list) :
          slots[i].parameter_as_function = list[i].parameter_as_function
          /\ Last(Split(slots[i].parameter_name, "."))
                = Last(Split(list[i].parameter_name, "."))

\* C4: after a completed walk each of the four descriptor lists holds its
\* descriptors in the depth-first order of the document, the fields and the
\* sub-structs of every struct stand in the order of the keys of their
\* namespace, and the rendered lists keep the order of the descriptors.
C4_DocumentOrder ==
    /\ pc \in {"walked", "rendered", "written"} =>
          /\ InDocumentOrder(declare_parameters)
          /\ InDocumentOrder(update_parameters)
          /\ InDocumentOrder(declare_parameter_sets)
          /\ InDocumentOrder(declare_dynamic_parameters)
          /\ Len(structs[1].fields) + Len(structs[1].sub_structs) <= 1
          /\ \A ref \in 2..Len(structs) : InDeclarationOrder(ref)
    /\ pc \in {"rendered", "written"} =>
          /\ RenderedInOrder(code[1].update_params_set, update_parameters)
          /\ RenderedInOrder(code[1].declare_params_set, declare_parameter_sets)
          /\ RenderedInOrder(code[1].declare_set_dynamic_params,
                             declare_dynamic_parameters)
          /\ Len(code[1].declare_params) = Len(declare_parameters)
          /\ \A i \in 1..Len(declare_parameters) :
                code[1].declare_params[i].parameter_name
                    = declare_parameters[i].parameter_name

\* a rendered document with two static and two dynamic parameters, a struct
\* of two fields and a struct of two sub-structs
C4_Witness ==
    /\ pc = "rendered"
    /\ Len(declare_parameters) >= 2
    /\ Len(declare_dynamic_parameters) >= 2
    /\ \E ref \in 2..Len(structs) : Len(structs[ref].fields) >= 2
    /\ \E ref \in 2..Len(structs) : Len(structs[ref].sub_structs) >= 2

\* the names of the namespaces around the parameter of a descriptor, the
\* root namespace first; none if the root node itself is the parameter
Ancestors(parameter_name) ==
    IF Len(Split(parameter_name, ".")) = 1 /\ ~HasKey(RootValue, parameter_name)
    THEN <<>>
    ELSE <<RootName>> \o Front(Split(parameter_name, "."))

\* the parameter has a static descriptor of every kind and no dynamic one
OnlyStatic(parameter_name) ==
    /\ \E i \in 1..Len(declare_parameters) :
          declare_parameters[i].parameter_name = parameter_name
    /\ \A i \in 1..Len(declare_dynamic_parameters) :
          declare_dynamic_parameters[i].parameter_name # parameter_name

\* the parameter has a dynamic descriptor and no static or update descriptor
OnlyDynamic(parameter_name) ==
    /\ \E i \in 1..Len(declare_dynamic_parameters) :
          declare_dynamic_parameters[i].parameter_name = parameter_name
    /\ \A i \in 1..Len(declare_parameters) :
          declare_parameters[i].parameter_name # parameter_name
    /\ \A i \in 1..Len(update_parameters) :
          update_parameters[i].parameter_name # parameter_name
    /\ \A i \in 1..Len(declare_parameter_sets) :
          declare_parameter_sets[i].parameter_name # parameter_name

\* the names of all parameters with a descriptor
Described == {DescriptorNames[i] : i \in 1..Len(DescriptorNames)}

\* C5, as stated: a leaf gets a dynamic descriptor, and no static or update
\* descriptor, if and only if some namespace on its path is a mapped one; a
\* leaf in an ordinary namespace below a mapped namespace is dynamic.
C5_DynamicIffMappedAncestor ==
    \A name \in Described :
        IF \E i \in 1..Len(Ancestors(name)) : is_mapped_parameter(Ancestors(name)[i])
        THEN OnlyDynamic(name)
        ELSE OnlyStatic(name)

\* C5, amended: a leaf gets a dynamic descriptor, and no static or update
\* descriptor, if and only if the namespace that directly holds it is a
\* mapped one; the namespaces further up do not count.
C5_DynamicIffMappedParent ==
    \A name \in Described :
        IF Ancestors(name) # <<>> /\ is_mapped_parameter(Last(Ancestors(name)))
        THEN OnlyDynamic(name)
        ELSE OnlyStatic(name)

\* a mapped namespace holds a leaf, dynamic, and an ordinary namespace whose
\* leaf is static
C5_Witness ==
    /\ pc = "walked"
    /\ \E name \in Described :
          /\ OnlyDynamic(name)
          /\ is_mapped_parameter(Last(Ancestors(name)))
    /\ \E name \in Described :
          /\ OnlyStatic(name)
          /\ ~is_mapped_parameter(Last(Ancestors(name)))
          /\ \E i \in 1..Len(Ancestors(name)) : is_mapped_parameter(Ancestors(name)[i])

\* the path, below the root namespace, of the parent of the namespace that
\* directly holds the parameter
OwnerPath(parameter_name) ==
    IF Len(Ancestors(parameter_name)) >= 2
    THEN Tail(Front(Ancestors(parameter_name)))
    ELSE <<>>

\* the map key of a mapped namespace: the last segment between underscores
MapKey(struct_name) == Last(Split(struct_name, "_"))

\* C6, as stated: rendering decomposes the name of every dynamic descriptor,
\* wherever its mapped namespace stands, the schema root included: the map
\* key is the last underscore-delimited segment of the namespace's name, the
\* field is the leaf's name, and the map path is the path of the namespace's
\* parent followed by <mapKey>_map.
C6_MapDecomposition ==
    /\ ~(/\ pc = "failed"
         /\ exc.in = "__str__"
         /\ exc.exc = "IndexError"
         /\ declare_dynamic_parameters # <<>>)
    /\ pc = "rendered" =>
          \A i \in 1..Len(declare_dynamic_parameters) :
              /\ code[1].declare_set_dynamic_params[i].mapped_param
                    = MapKey(Last(Ancestors(declare_dynamic_parameters[i].parameter_name)))
              /\ code[1].declare_set_dynamic_params[i].parameter_field
                    = Last(Split(declare_dynamic_parameters[i].parameter_name, "."))
              /\ code[1].declare_set_dynamic_params[i].parameter_map
                    = Dotted(Append(
                          OwnerPath(declare_dynamic_parameters[i].parameter_name),
                          MapKey(Last(Ancestors(
                              declare_dynamic_parameters[i].parameter_name)))
                          \o S_map_suffix))

\* some validation function of some descriptor satisfies P
SomeValidationIn(list, P(_)) ==
    \E i \in 1..Len(list) :
        \E j \in 1..Len(list[i].parameter_validations) :
            P(list[i].parameter_validations[j].validation_function)

SomeValidation(P(_)) ==
    \/ SomeValidationIn(update_parameters, P)
    \/ SomeValidationIn(declare_parameter_sets, P)
    \/ SomeValidationIn(declare_dynamic_parameters, P)

\* an argument of the validation function is a sequence
HasSequenceArgument(vf) ==
    \E a \in 1..Len(vf.arguments) : vf.arguments[a].k = "list"

\* values no literal function exists for
IsContainer(v) == v.k \in {"list", "dict"}

\* an argument is a mapping, or a sequence with a sequence or mapping in it
HasUnsupportedArgument(vf) ==
    \E a \in 1..Len(vf.arguments) :
        \/ vf.arguments[a].k = "dict"
        \/ /\ vf.arguments[a].k = "list"
           /\ \E e \in 1..Len(vf.arguments[a].items) :
                 IsContainer(vf.arguments[a].items[e])

\* a sequence of plain numbers
IsNumberList(v) ==
    /\ v.k = "list"
    /\ \A e \in 1..Len(v.items) :
          \/ v.items[e].k = "int"
          \/ v.items[e].k = "float" /\ v.items[e].sp = "num"

\* ", {a, b}": the brace-enclosed elements of a sequence of numbers
Braced(v) ==
    S_comma_brace \o Join([e \in 1..Len(v.items) |-> StrOf(v.items[e])], S_comma)
    \o <<"}">>

\* the rendered calls of a list show every sequence of numbers in braces
BracedIn(slots, list) ==
    \A i \in 1..Len(list) :
        \A j \in 1..Len(list[i].parameter_validations) :
            \A a \in 1..Len(list[i].parameter_validations[j].validation_function.arguments) :
                IsNumberList(
                    list[i].parameter_validations[j].validation_function.arguments[a])
                => Contains(
                    slots[i].parameter_validations[j].validation_function,
                    Braced(list[i].parameter_validations[j].validation_function
                               .arguments[a]))

\* C7, as stated: no code is rendered from a validation function with a
\* sequence among its arguments.
C7_SequenceArgumentRefused ==
    pc \in {"rendered", "written"} => ~SomeValidation(HasSequenceArgument)

\* C7, amended: a sequence argument is rendered as its elements in braces;
\* the compile error "invalid python arg type" is raised only for a mapping
\* argument and for a sequence or mapping inside a sequence argument, and
\* then no code is rendered.
C7_NestedSequenceRefused ==
    [][pc = "walked" =>
          /\ SomeValidation(HasUnsupportedArgument) => pc' = "failed"
          /\ (/\ pc' = "failed"
              /\ exc'.exc = "YAMLSyntaxError"
              /\ Contains(exc'.msg, S_invalid_arg_type))
             => SomeValidation(HasUnsupportedArgument)
          /\ pc' = "rendered" =>
                /\ BracedIn(code'[1].update_params_set, update_parameters)
                /\ BracedIn(code'[1].declare_params_set, declare_parameter_sets)
                /\ BracedIn(code'[1].declare_set_dynamic_params,
                            declare_dynamic_parameters)]_vars

\* code was rendered for one_of<>: [[1, 2]] on a double parameter
C7_Witness ==
    /\ pc = "rendered"
    /\ Len(update_parameters) = 1
    /\ Len(update_parameters[1].parameter_validations) = 1
    /\ update_parameters[1].parameter_validations[1].validation_function.arguments
          = <<PyList(<<PyInt(1), PyInt(2)>>)>>
    /\ code[1].update_params_set[1].parameter_validations[1].validation_function
          = <<"o", "n", "e", "_", "o", "f", "<", "d", "o", "u", "b", "l", "e", ">">>
            \o S_open_call \o S_comma_brace \o <<"1", ",", " ", "2", "}", ")">>

\* the i-th update descriptor is of a double parameter with the one
\* validation bounds: [0, 10]
BoundsOnDouble(i) ==
    /\ update_parameters[i].parameter_as_function = S_as_double
    /\ Len(update_parameters[i].parameter_validations) = 1
    /\ update_parameters[i].parameter_validations[1].validation_function
          = [function_name |-> F_bounds, arguments |-> <<PyInt(0), PyInt(10)>>]

\* the call text rendered for the one validation of the i-th update descriptor
CallText(i) ==
    code[1].update_params_set[i].parameter_validations[1].validation_function

\* C8, as stated: bounds: [0, 10] on a double parameter is rendered with the
\* arguments 0.0 and 10.0.
C8_IntegerArgumentsGetFraction ==
    pc = "rendered" =>
        \A i \in 1..Len(update_parameters) :
            BoundsOnDouble(i) =>
                CallText(i) = F_bounds \o S_open_call
                              \o S_comma \o <<"0", ".", "0">>
                              \o S_comma \o <<"1", "0", ".", "0">> \o <<")">>

\* C8, amended: bounds: [0, 10] on a double parameter is rendered with the
\* arguments 0 and 10: an integer argument is written as an integer whatever
\* the type of the parameter.
C8_IntegerArgumentsStayIntegers ==
    pc = "rendered" =>
        \A i \in 1..Len(update_parameters) :
            BoundsOnDouble(i) =>
                CallText(i) = F_bounds \o S_open_call
                              \o S_comma \o <<"0">>
                              \o S_comma \o <<"1", "0">> \o <<")">>

\* code was rendered for a double parameter with bounds: [0, 10]
C8_Witness ==
    /\ pc = "rendered"
    /\ Len(update_parameters) = 1
    /\ BoundsOnDouble(1)
    /\ Contains(CallText(1), <<"(", "p", "a", "r", "a", "m", ",", " ", "0", ",", " ", "1", "0", ")">>)

\* a bool, an int, a finite float or a str
IsScalar(v) ==
    \/ v.k \in {"bool", "int", "str"}
    \/ v.k = "float" /\ v.sp = "num"

\* the literal of a scalar by its own kind
KindLiteral(v) ==
    CASE v.k = "bool" -> IF v.b THEN S_true ELSE S_false
      [] v.k = "int" -> IntStr(v.n)
      [] v.k = "float" -> StrOf(v)
      [] v.k = "str" -> <<"\"">> \o v.s \o <<"\"">>

\* the call of a validation function on scalar arguments, each written as
\* the literal of its kind
KindCall(vf) ==
    vf.function_name \o S_open_call
    \o Concat([a \in 1..Len(vf.arguments) |-> S_comma \o KindLiteral(vf.arguments[a])])
    \o <<")">>

\* the rendered calls of a list write every scalar argument by its kind
ByKindIn(slots, list) ==
    \A i \in 1..Len(list) :
        \A j \in 1..Len(list[i].parameter_validations) :
            (\A a \in 1..Len(list[i].parameter_validations[j].validation_function.arguments) :
                IsScalar(list[i].parameter_validations[j].validation_function.arguments[a]))
            => slots[i].parameter_validations[j].validation_function
                  = KindCall(list[i].parameter_validations[j].validation_function)

\* C9, as stated: every scalar argument of a validation function is rendered
\* as the literal of its own kind: a bool as true or false, an int as its
\* decimal text, a float as float text, a str in quotes.
C9_ArgumentsByOwnKind ==
    pc = "rendered" =>
        /\ ByKindIn(code[1].update_params_set, update_parameters)
        /\ ByKindIn(code[1].declare_params_set, declare_parameter_sets)
        /\ ByKindIn(code[1].declare_set_dynamic_params, declare_dynamic_parameters)

\* the field was built from a default value that the type check of the
\* module, validate_type, does not accept for the field's type
Mismatched(field) ==
    /\ field.variable_type \in Tags
    /\ field.value.k # "none"
    /\ validate_type(field.variable_type, field.value) # Ret(PyBool(TRUE))

\* some struct holds a field built from a mismatched default value
SomeMismatchedField ==
    \E ref \in 1..Len(structs) :
        \E i \in 1..Len(structs[ref].fields) : Mismatched(structs[ref].fields[i])

\* C10, as stated: a default value that does not match the declared type
\* ends the compilation: no code is ever rendered from a field with a
\* mismatched value.
C10_MismatchedDefaultRefused ==
    SomeMismatchedField => pc \notin {"rendered", "written"}

\* parse_dict is about to be run on a leaf whose type field is a string
AtTaggedLeaf ==
    /\ pc = "walk"
    /\ call # <<>>
    /\ PlainMapping(call[1].root_map)
    /\ HasKey(call[1].root_map, K_type)
    /\ DictAt(call[1].root_map, K_type).k = "str"

CallTag == DictAt(call[1].root_map, K_type).s

\* the four lookups of the type catalog: storage type, primitive type,
\* literal function, accessor name
Lookups(tag) ==
    <<cpp_type_from_defined_type(tag), cpp_primitive_type_from_defined_type(tag),
      cpp_str_func_from_defined_type(tag), get_parameter_as_function_str(tag)>>

UnknownType(r) ==
    /\ r.exc = "YAMLSyntaxError"
    /\ r.msg = invalid_yaml_type.msg

\* C11, as stated: for the tag of every leaf the walk comes to, all four
\* lookups of the type catalog succeed if the tag is one of the eight
\* recognized tags, and each of them raises the unknown-type compile error if
\* it is any other tag.
C11_CatalogTotal ==
    AtTaggedLeaf =>
        IF CallTag \in Tags
        THEN \A i \in 1..4 : ~Raised(Lookups(CallTag)[i])
        ELSE \A i \in 1..4 : UnknownType(Lookups(CallTag)[i])

\* C12: a run in which an exception was raised, in the walk or in
\* rendering, has ended without writing the output file; and the output
\* file is written only when the walk has returned to run() and str(self)
\* has returned, and then it holds exactly the rendered code.
C12_AllOrNothing ==
    /\ exc # NoExc => (pc = "failed" /\ output_file = <<>>)
    /\ pc = "failed" => (exc # NoExc /\ output_file = <<>>)
    /\ output_file # <<>> =>
          /\ pc = "written"
          /\ call = <<>> /\ stack = <<>>
          /\ ~Raised(GenParamStruct_str)
          /\ output_file = <<GenParamStruct_str.val>>

\* rendering failed after the walk had built descriptors, and nothing was
\* written
C12_Witness ==
    /\ pc = "failed"
    /\ exc.in = "__str__"
    /\ declare_parameters # <<>>
    /\ code = <<>>
    /\ output_file = <<>>

\* the leaf method run on the node parse_dict is called on returns: the
\* node has got its descriptors
LeafCompletes ==
    /\ pc = "walk"
    /\ call # <<>>
    /\ pc' # "failed"
    /\ Descriptors' = Descriptors + 1

\* the names of the validation rules of a leaf, in the order of the schema
KeysOf(d) == IF d.k = "dict" THEN [i \in 1..Len(d.items) |-> d.items[i][1]] ELSE <<>>

RuleNames(v) == KeysOf(DictGet(v, K_validation, PyDict(<<>>)))

\* a function name up to its template argument
Stem(function_name) ==
    IF \E i \in 1..Len(function_name) : function_name[i] = "<"
    THEN SubSeq(function_name, 1,
                (CHOOSE i \in 1..Len(function_name) :
                    /\ function_name[i] = "<"
                    /\ \A j \in 1..(i - 1) : function_name[j] # "<") - 1)
    ELSE function_name

Stems(names) == [i \in 1..Len(names) |-> Stem(names[i])]

\* the rules the ParameterValidation units of a descriptor are for, in order
UnitNames(descriptor) ==
    [j \in 1..Len(descriptor.parameter_validations) |->
        descriptor.parameter_validations[j].validation_function.function_name]

RECURSIVE UnitsUpTo(_, _)
\* the number of ParameterValidation units in the first n descriptors
UnitsUpTo(list, n) ==
    IF n = 0 THEN 0 ELSE Len(list[n].parameter_validations) + UnitsUpTo(list, n - 1)

\* the number of ParameterValidation units in all descriptors; a
\* DeclareParameter holds none
TotalUnits ==
    UnitsUpTo(update_parameters, Len(update_parameters))
    + UnitsUpTo(declare_parameter_sets, Len(declare_parameter_sets))
    + UnitsUpTo(declare_dynamic_parameters, Len(declare_dynamic_parameters))

\* the units of the descriptor are for the rules, in the rules' order, with
\* the given effect on failure
UnitsFor(descriptor, rules, invalid_effect) ==
    /\ Stems(UnitNames(descriptor)) = Stems(rules)
    /\ \A j \in 1..Len(descriptor.parameter_validations) :
          descriptor.parameter_validations[j].invalid_effect = invalid_effect

\* C13, as stated: a leaf that gets its descriptors gets three
\* ParameterValidation units for each of its validation rules.
C13_ThreeUnitsPerRule ==
    [][LeafCompletes =>
          TotalUnits' = TotalUnits + 3 * Len(RuleNames(call[1].root_map))]_vars

\* C13, amended: a leaf under an ordinary namespace gets two
\* ParameterValidation units for each of its validation rules, one in its
\* update descriptor (on failure the validation result is returned) and one
\* in its declare-set descriptor (on failure an exception is thrown), and
\* none in its DeclareParameter; a leaf under a mapped namespace gets one
\* unit per rule, in its dynamic descriptor (on failure an exception is
\* thrown).  Each descriptor lists the rules in the order of the schema, and
\* parallel descriptors hold the same validation functions.
C13_UnitsPerRole ==
    [][LeafCompletes =>
          IF IsDynamic
          THEN /\ TotalUnits' = TotalUnits + Len(RuleNames(call[1].root_map))
               /\ UnitsFor(Last(declare_dynamic_parameters'), RuleNames(call[1].root_map),
                           initialization_fail_validation(
                               Last(declare_dynamic_parameters').parameter_name))
          ELSE /\ TotalUnits' = TotalUnits + 2 * Len(RuleNames(call[1].root_map))
               /\ UnitsFor(Last(update_parameters'), RuleNames(call[1].root_map),
                           update_parameter_fail_validation)
               /\ UnitsFor(Last(declare_parameter_sets'), RuleNames(call[1].root_map),
                           initialization_fail_validation(
                               Last(declare_parameters').parameter_name))
               /\ [j \in 1..Len(Last(update_parameters').parameter_validations) |->
                      Last(update_parameters').parameter_validations[j].validation_function]
                  = [j \in 1..Len(Last(declare_parameter_sets').parameter_validations) |->
                      Last(declare_parameter_sets').parameter_validations[j].validation_function]]_vars

\* a leaf of three rules under an ordinary namespace has got its descriptors
C13_Witness ==
    /\ pc = "rendered"
    /\ Len(update_parameters) = 1
    /\ Stems(UnitNames(update_parameters[1])) = Stems(<<F_bounds, F_one_of, F_check>>)
    /\ Stems(UnitNames(declare_parameter_sets[1])) = Stems(<<F_bounds, F_one_of, F_check>>)

\* C14, as stated: a compilation that does not return the rendered code ends
\* in a compile error, the exception compile_error builds; no schema ends it
\* in any other exception.
C14_OnlyCompileErrors ==
    pc = "failed" => exc.exc = "YAMLSyntaxError"

\* parse_dict is called on a node
AtNode == pc = "walk" /\ call # <<>>

\* the node is taken as a namespace: a struct of its name is created below
\* the cursor struct and becomes the cursor, and the loop over the node's
\* children begins
NamespaceStep ==
    /\ Len(structs') = Len(structs) + 1
    /\ Last(structs').struct_name = call[1].name
    /\ Last(structs'[struct_tree].sub_structs) = Len(structs')
    /\ struct_tree' = Len(structs')
    /\ Len(stack') = Len(stack) + 1
    /\ Last(stack').root_map = call[1].root_map
    /\ Last(stack').pos = 0
    /\ pc' = "walk"

\* the node is taken as a leaf: no struct is created, and a leaf method
\* gives the node its descriptors or raises
LeafStep ==
    /\ Len(structs') = Len(structs)
    /\ struct_tree' = struct_tree
    /\ \/ pc' # "failed" /\ Descriptors' = Descriptors + 1
       \/ pc' = "failed" /\ exc'.in = "parse_dict" /\ exc'.exc # "StopIteration"

\* some value of the mapping, at any key position, is a mapping
HasMappingValue(v) ==
    /\ v.k = "dict"
    /\ \E i \in 1..Len(v.items) : v.items[i][2].k = "dict"

\* the first value of the mapping, in key order, is a mapping
FirstValueIsMapping(v) ==
    /\ v.k = "dict"
    /\ v.items # <<>>
    /\ v.items[1][2].k = "dict"

\* C15, as stated: parse_dict takes a node as a namespace if its value is a
\* mapping one of whose values, at any key position, is a mapping, and as a
\* leaf otherwise.
C15_NamespaceIffAnyMappingValue ==
    [][AtNode => IF HasMappingValue(call[1].root_map) THEN NamespaceStep ELSE LeafStep]_vars

\* C15, amended: parse_dict takes a node as a namespace if and only if its
\* value is a mapping whose first value, in key order, is a mapping; a
\* mapping with a mapping at a later key position only is taken as a leaf,
\* as is every value that is no mapping; on an empty mapping parse_dict
\* raises StopIteration and changes nothing.
C15_NamespaceIffFirstMappingValue ==
    [][AtNode =>
          IF call[1].root_map.k = "dict" /\ call[1].root_map.items = <<>>
          THEN /\ pc' = "failed"
               /\ exc'.exc = "StopIteration"
               /\ UNCHANGED <<structs, struct_tree, stack, lists>>
          ELSE IF FirstValueIsMapping(call[1].root_map) THEN NamespaceStep ELSE LeafStep]_vars

\* a node with a mapping at a later key position only, its validation, has
\* been taken as a leaf below the root namespace
C15_Witness ==
    /\ pc = "walked"
    /\ Len(structs) = 2
    /\ Len(update_parameters) = 1
    /\ update_parameters[1].parameter_validations # <<>>
    /\ HasMappingValue(RootValue.items[1][2])
    /\ ~FirstValueIsMapping(RootValue.items[1][2])

\* the struct created for the namespace of the i-th parse_dict call on the
\* stack: the sub-struct of that name of the struct the call found the
\* cursor at
FrameStruct(i) ==
    CHOOSE s \in 1..Len(structs) :
        /\ structs[s].struct_name = stack[i].name
        /\ \E j \in 1..Len(structs[stack[i].cur_struct_tree].sub_structs) :
              structs[stack[i].cur_struct_tree].sub_structs[j] = s

\* the struct the cursor was at when the i-th call on the stack was entered
EntryStruct(i) == IF i = 1 THEN 1 ELSE FrameStruct(i - 1)

\* C16: during the walk every parse_dict call on the stack remembers the
\* struct the cursor was at on its entry, and the cursor is the struct of
\* the innermost namespace being looped over, before and after each of its
\* children, so a call that returns leaves the cursor where it found it and
\* every child of a namespace sees that namespace's struct; when the walk has
\* returned the cursor is the top struct Params.
C16_CursorDiscipline ==
    /\ pc = "walk" =>
          /\ \A i \in 1..Len(stack) : stack[i].cur_struct_tree = EntryStruct(i)
          /\ struct_tree = EntryStruct(Len(stack) + 1)
    /\ pc \in {"walked", "rendered", "written"} =>
          /\ struct_tree = 1
          /\ structs[1].struct_name = S_Params

\* the last child of the root namespace is about to be visited after two
\* namespaces before it have been descended into and left
C16_Witness ==
    /\ pc = "walk"
    /\ call # <<>>
    /\ Len(stack) = 1
    /\ stack[1].pos = 2
    /\ Len(structs) >= 4
    /\ struct_tree = 2

\* the leaf parse_dict is called on is directly inside a mapped namespace
LeafIsDynamic == stack # <<>> /\ is_mapped_parameter(Last(stack).name)

\* the lengths of declare_parameters, update_parameters,
\* declare_parameter_sets and declare_dynamic_parameters
RoleLengths ==
    <<Len(declare_parameters), Len(update_parameters), Len(declare_parameter_sets),
      Len(declare_dynamic_parameters)>>

\* C17: a leaf method that returns has appended exactly one entry to each of
\* declare_parameters, update_parameters and declare_parameter_sets and none
\* to declare_dynamic_parameters if the leaf is not dynamic, and exactly one
\* entry to declare_dynamic_parameters and none to the other three if it is;
\* so as long as no leaf has failed the three static lists have the same
\* length, and that length and the length of the dynamic list add up to the
\* number of fields of all structs.
C17_RolePopulation ==
    [][/\ LeafCompletes =>
             /\ FieldCount(Len(structs))' = FieldCount(Len(structs)) + 1
             /\ RoleLengths' = IF LeafIsDynamic
                               THEN <<RoleLengths[1], RoleLengths[2], RoleLengths[3],
                                      RoleLengths[4] + 1>>
                               ELSE <<RoleLengths[1] + 1, RoleLengths[2] + 1,
                                      RoleLengths[3] + 1, RoleLengths[4]>>
       /\ pc' # "failed" =>
             /\ RoleLengths'[1] = RoleLengths'[2]
             /\ RoleLengths'[2] = RoleLengths'[3]
             /\ RoleLengths'[1] + RoleLengths'[4] = FieldCount(Len(structs))']_vars

\* three leaves under ordinary namespaces and two under a mapped namespace
\* have been completed
C17_Witness ==
    /\ pc = "walked"
    /\ RoleLengths = <<3, 3, 3, 2>>
    /\ FieldCount(Len(structs)) = 5

=============================================================================
